---- MODULE Spec2Model ----
(***************************************************************************)
(* The ChatWidget component (src/unnamed/part_001) as a state machine.     *)
(*                                                                         *)
(* A text is a sequence of symbols.  The symbols a user can type are " "   *)
(* and letters; each fixed literal of the source (the welcome text, the    *)
(* three error texts) is one symbol of its own, so that it can be told     *)
(* apart from anything typed.                                              *)
(*                                                                         *)
(* React is modelled by what it guarantees: a handler of a discrete DOM    *)
(* event (click, keydown, change) runs with the closures of the last       *)
(* committed render and its state updates are committed (render + effects) *)
(* before the next event is handled; updates made outside such a handler   *)
(* (the continuation of the awaited backend call, the speech callbacks)    *)
(* are queued and committed by a later render, so a discrete event that    *)
(* arrives in between runs with the closures of the older render.  `view`  *)
(* is the last committed render; a commit always renders the whole queued  *)
(* state.                                                                  *)
(***************************************************************************)
EXTENDS Integers, Sequences, FiniteSets, TLC

VARIABLES
    messages,        \* useState<Message[]>                       (line 69)
    userInput,       \* useState('')                              (line 85)
    isLoading,       \* useState(false)                           (line 62)
    isOpen,          \* useState<boolean>                         (line 52)
    isRecording,     \* useState(false)                           (line 86)
    chatRef,         \* useRef<Chat | null>: the session handle   (line 88)
    recognitionRef,  \* useRef<SpeechRecognition | null>          (line 89)
    view,            \* the last committed render: what closures and effects see
    sessionStorage,  \* the two persisted keys
    pending,         \* chatRef.current.sendMessage calls not yet settled
    recognizer,      \* the platform recognizer's own state
    env,             \* what the build and the browser provide
    loaded,          \* history: the messages the initializer returned on this page
    callLog,         \* history: the inputs of the sends issued on this page
    settleLog        \* history: how the calls issued on this page were settled

vars == <<messages, userInput, isLoading, isOpen, isRecording, chatRef,
          recognitionRef, view, sessionStorage, pending, recognizer, env,
          loaded, callLog, settleLog>>

-----------------------------------------------------------------------------
(* Bounds of the exploration *)

MaxMessages == 4
MaxQueued == 1
MaxInputLen == 3

-----------------------------------------------------------------------------
(* Texts *)

None == <<>>
Some(x) == <<x>>

EmptyText == <<>>

IsWhitespace(c) == c = " "

RECURSIVE TrimStart(_)
TrimStart(t) ==
    IF t = <<>> THEN <<>>
    ELSE IF IsWhitespace(Head(t)) THEN TrimStart(Tail(t)) ELSE t

RECURSIVE TrimEnd(_)
TrimEnd(t) ==
    IF t = <<>> THEN <<>>
    ELSE IF IsWhitespace(t[Len(t)]) THEN TrimEnd(SubSeq(t, 1, Len(t) - 1)) ELSE t

\* String.prototype.trim
Trim(t) == TrimEnd(TrimStart(t))

\* a string is truthy iff it is not ''
Truthy(t) == t # <<>>

WelcomeText == <<"Hello! Welcome to ASASQS. ...">>
InitErrorText == <<"Failed to initialize the chat assistant. Please check the API key and configuration.">>
MicErrorText == <<"Microphone access was denied. Please allow it in your browser settings to use voice input.">>
SendErrorText == <<"Sorry, something went wrong. Please try again.">>

\* what the textarea's change event can deliver
TypedTexts == {<<>>, <<" ">>, <<"a">>}

\* what the recognizer can deliver as event.results[0][0].transcript
Transcripts == {<<"a">>}

-----------------------------------------------------------------------------
(* Messages *)

Roles == {"user", "model", "error"}

Msg(r, c) == [role |-> r, content |-> c, sources |-> None]

initialMessage == Msg("model", WelcomeText)

\* a bug: the new message put first
AppendMessage_AtFront(prev, m) == <<m>> \o prev

\* setMessages(prev => [...prev, m])
AppendMessage(prev, m) == prev \o <<m>>

\* an array element that is an object but no Message: its role is none of Roles
ForeignObject == Msg("system", <<"a">>)

-----------------------------------------------------------------------------
(* JSON and the session storage.  A stored item is absent (getItem returns  *)
(* null) or a string: '', a string that is no JSON, or the JSON text of a  *)
(* boolean, of an array of objects, or of some other value.  The JSON text *)
(* of an object is the sequence of its fields.                             *)

Field(k, v) == [key |-> k, val |-> v]
JString(t) == [t |-> "string", str |-> t, arr |-> <<>>]
JArray(a) == [t |-> "array", str |-> <<>>, arr |-> a]

\* JSON.stringify of one message: a property whose value is undefined is left out
StringifyMessage(m) ==
    <<Field("role", JString(<<m.role>>)), Field("content", JString(m.content))>>
    \o (IF m.sources = None THEN <<>> ELSE <<Field("sources", JArray(m.sources[1]))>>)

HasKey(obj, k) == \E i \in 1..Len(obj) : obj[i].key = k
Get(obj, k) == obj[CHOOSE i \in 1..Len(obj) : obj[i].key = k].val

\* JSON.parse of one object, read through the fields of Message
ParseMessage(obj) ==
    [role |-> Get(obj, "role").str[1],
     content |-> Get(obj, "content").str,
     sources |-> IF HasKey(obj, "sources") THEN Some(Get(obj, "sources").arr) ELSE None]

Absent == [kind |-> "absent", bool |-> FALSE, arr |-> <<>>]
EmptyString == [kind |-> "empty", bool |-> FALSE, arr |-> <<>>]
Malformed == [kind |-> "malformed", bool |-> FALSE, arr |-> <<>>]
OtherJson == [kind |-> "other", bool |-> FALSE, arr |-> <<>>]
BoolJson(b) == [kind |-> "bool", bool |-> b, arr |-> <<>>]
ArrayJson(a) == [kind |-> "array", bool |-> FALSE, arr |-> a]

\* JSON.stringify(messages)
StringifyMessages(ms) == ArrayJson([i \in 1..Len(ms) |-> StringifyMessage(ms[i])])

\* JSON.stringify(isOpen)
StringifyBool(b) == BoolJson(b)

\* the array JSON.parse returns for a stored array
ParseArray(item) == [i \in 1..Len(item.arr) |-> ParseMessage(item.arr[i])]

\* a bug: a stored array returned without the length check
LoadMessages_NoLengthCheck(item) ==
    IF item.kind = "array" THEN ParseArray(item) ELSE <<initialMessage>>

\* the useState initializer of messages
LoadMessages(item) ==
    IF item.kind \in {"absent", "empty"} THEN <<initialMessage>>      \* if (savedMessages)
    ELSE IF item.kind = "malformed" THEN <<initialMessage>>           \* catch (e)
    ELSE IF item.kind = "array" /\ Len(item.arr) > 0 THEN ParseArray(item)
    ELSE <<initialMessage>>

\* the useState initializer of isOpen
LoadIsOpen(item) ==
    IF item.kind \in {"absent", "empty"} THEN FALSE                   \* savedState ? ... : false
    ELSE IF item.kind = "malformed" THEN FALSE                        \* catch (e)
    ELSE item.bool

-----------------------------------------------------------------------------
(* The backend and the platform *)

\* groundingChunks[i].web as the backend returns it
GoodWeb == [uri |-> <<"u">>, title |-> <<"t">>]
OtherWeb == [uri |-> <<"v">>, title |-> <<"t">>]
UntitledWeb == [uri |-> <<"u">>, title |-> <<>>]
NoUriWeb == [uri |-> <<>>, title |-> <<"t">>]

\* a grounding chunk; its web property is optional
Chunk(w) == [web |-> w]

\* candidates[0].groundingMetadata.groundingChunks of a grounded reply
GroundingChunks ==
    {<<>>,
     <<Chunk(None), Chunk(Some(UntitledWeb))>>,
     <<Chunk(Some(UntitledWeb)), Chunk(Some(GoodWeb)), Chunk(Some(OtherWeb))>>,
     <<Chunk(Some(OtherWeb)), Chunk(Some(NoUriWeb)), Chunk(Some(GoodWeb))>>}

\* what the awaited sendMessage call can resolve to: a reply without grounding
\* metadata and, from a backend that grounds its replies, replies with chunks
Responses(e) ==
    {[text |-> <<"r">>, chunks |-> None]}
    \cup (IF e.grounding THEN {[text |-> <<"r">>, chunks |-> Some(cs)] : cs \in GroundingChunks}
          ELSE {})

\* event.error of the recognizer's error event
SpeechErrorCodes == {"not-allowed", "no-speech"}

\* process.env.API_KEY usable or not; window.SpeechRecognition present or not;
\* sessionStorage.setItem succeeding, or throwing (storage disabled or full);
\* the backend returning grounding chunks or not
Envs == [apiKey : BOOLEAN, speech : BOOLEAN, writable : BOOLEAN, grounding : BOOLEAN]

-----------------------------------------------------------------------------
(* Session creation *)

\* a bug: error turns replayed as model turns
IsHistoryRole_NotFiltered(m) == m.role \in Roles

IsHistoryRole(m) == m.role = "user" \/ m.role = "model"

\* a bug: a trailing user turn (one that has no reply) left out of the history
History_WithoutTrailingUser(ms) ==
    LET all == SelectSeq(ms, IsHistoryRole)
        kept == IF all # <<>> /\ all[Len(all)].role = "user"
                THEN SubSeq(all, 1, Len(all) - 1) ELSE all
    IN  [i \in 1..Len(kept) |-> [role |-> kept[i].role, parts |-> <<[text |-> kept[i].content]>>]]

\* messages.filter(...).map(...)
History(ms) ==
    LET kept == SelectSeq(ms, IsHistoryRole)
    IN  [i \in 1..Len(kept) |-> [role |-> kept[i].role, parts |-> <<[text |-> kept[i].content]>>]]

\* ai.chats.create({model, history, config})
CreateChat(history) == Some([model |-> "gemini-2.5-flash", history |-> history])

InitErrorMessage == Msg("error", InitErrorText)

-----------------------------------------------------------------------------
(* Rendering and the two persistence effects *)

\* sessionStorage.setItem inside try/catch: a write that throws leaves the item
SetItem(store, key, value, ok) == IF ok THEN [store EXCEPT ![key] = value] ELSE store

Snapshot(ms, input, loading, recording, open) ==
    [messages |-> ms, userInput |-> input, isLoading |-> loading,
     isRecording |-> recording, isOpen |-> open]

\* a bug: no effect on [messages], only the visibility flag is written
RunEffects_OpenOnly(store, old, open, ms, okOpen, okMessages) ==
    IF open # old.isOpen
    THEN SetItem(store, "chatWidgetIsOpen", StringifyBool(open), okOpen)
    ELSE store

\* useEffect(..., [isOpen]) and useEffect(..., [messages]) after a commit
RunEffects(store, old, open, ms, okOpen, okMessages) ==
    LET s1 == IF open # old.isOpen
              THEN SetItem(store, "chatWidgetIsOpen", StringifyBool(open), okOpen)
              ELSE store
    IN  IF ms # old.messages
        THEN SetItem(s1, "chatWidgetMessages", StringifyMessages(ms), okMessages)
        ELSE s1

\* a commit of the state the step leaves: render, then the effects
Commit ==
    /\ view' = Snapshot(messages', userInput', isLoading', isRecording', isOpen')
    /\ sessionStorage' = RunEffects(sessionStorage, view, isOpen', messages',
                                    env.writable, env.writable)

\* the state updates that wait for a render
QueuedUpdates ==
    (Len(messages) - Len(view.messages))
    + (IF userInput # view.userInput THEN 1 ELSE 0)
    + (IF isLoading # view.isLoading THEN 1 ELSE 0)
    + (IF isRecording # view.isRecording THEN 1 ELSE 0)

\* a callback outside a discrete event handler: its updates wait for a later render
Callback == QueuedUpdates < MaxQueued

Deferred == UNCHANGED <<view, sessionStorage>>

-----------------------------------------------------------------------------
(* Construction: the first render and the mount effects (lines 52-161) *)

\* a bug: a store that ends with a user message taken as a send still in flight
InitialLoading_FromStore(store) ==
    LET ms == LoadMessages(store.chatWidgetMessages)
    IN  ms[Len(ms)].role = "user"

\* useState(false): the loading flag of a new page, whatever the storage holds
InitialLoading(store) == FALSE

Mounted(store, e) ==
    LET open == LoadIsOpen(store.chatWidgetIsOpen)
        ms == LoadMessages(store.chatWidgetMessages)
        s1 == SetItem(store, "chatWidgetIsOpen", StringifyBool(open), e.writable)
        s2 == SetItem(s1, "chatWidgetMessages", StringifyMessages(ms), e.writable)
        \* initChat: new GoogleGenAI throws without a key, and the catch appends
        ms2 == IF e.apiKey THEN ms ELSE AppendMessage(ms, InitErrorMessage)
        s3 == IF e.apiKey THEN s2
              ELSE SetItem(s2, "chatWidgetMessages", StringifyMessages(ms2), e.writable)
    IN  [messages |-> ms2,
         userInput |-> EmptyText,
         isLoading |-> InitialLoading(store),
         isOpen |-> open,
         isRecording |-> FALSE,
         chatRef |-> IF e.apiKey THEN CreateChat(History(ms)) ELSE None,
         recognitionRef |-> e.speech,
         view |-> Snapshot(ms2, EmptyText, InitialLoading(store), FALSE, open),
         sessionStorage |-> s3,
         pending |-> <<>>,
         recognizer |-> "inactive",
         env |-> e,
         loaded |-> ms,
         callLog |-> <<>>,
         settleLog |-> <<>>]

\* the store an earlier page of the tab leaves after one answered send
AnsweredConversation == <<initialMessage, Msg("user", <<"a">>), Msg("model", <<"r">>)>>

\* what the two keys can hold when the page is first opened
InitialStorage ==
    [chatWidgetIsOpen : {Absent},
     chatWidgetMessages : {Absent, EmptyString, Malformed, OtherJson, ArrayJson(<<>>),
                           StringifyMessages(<<ForeignObject>>),
                           StringifyMessages(<<initialMessage>>),
                           StringifyMessages(AnsweredConversation)}]
    \cup [chatWidgetIsOpen : {Malformed, BoolJson(TRUE)}, chatWidgetMessages : {Absent}]

FreshStorage == [chatWidgetIsOpen |-> Absent, chatWidgetMessages |-> Absent]

\* the pages explored: a fresh session with writable storage, with a recognizer
\* or with grounded replies, and every initial storage in every environment
\* that has neither
Scenarios ==
    {sc \in [store : InitialStorage, env : Envs] :
        \/ /\ sc.store = FreshStorage /\ sc.env.writable
           /\ ~(sc.env.speech /\ sc.env.grounding)
        \/ ~sc.env.speech /\ ~sc.env.grounding}

Init ==
    \E sc \in Scenarios :
        LET r == Mounted(sc.store, sc.env)
        IN  /\ messages = r.messages
            /\ userInput = r.userInput
            /\ isLoading = r.isLoading
            /\ isOpen = r.isOpen
            /\ isRecording = r.isRecording
            /\ chatRef = r.chatRef
            /\ recognitionRef = r.recognitionRef
            /\ view = r.view
            /\ sessionStorage = r.sessionStorage
            /\ pending = r.pending
            /\ recognizer = r.recognizer
            /\ env = r.env
            /\ loaded = r.loaded
            /\ callLog = r.callLog
            /\ settleLog = r.settleLog

\* a page reload: the component is constructed again from the storage (explored
\* while the store it loads leaves room for one more exchange)
Reload ==
    /\ Len(LoadMessages(sessionStorage.chatWidgetMessages)) + 2 <= MaxMessages
    /\ LET r == Mounted(sessionStorage, env)
       IN  /\ messages' = r.messages
           /\ userInput' = r.userInput
           /\ isLoading' = r.isLoading
           /\ isOpen' = r.isOpen
           /\ isRecording' = r.isRecording
           /\ chatRef' = r.chatRef
           /\ recognitionRef' = r.recognitionRef
           /\ view' = r.view
           /\ sessionStorage' = r.sessionStorage
           /\ pending' = r.pending
           /\ recognizer' = r.recognizer
           /\ env' = r.env
           /\ loaded' = r.loaded
           /\ callLog' = r.callLog
           /\ settleLog' = r.settleLog

-----------------------------------------------------------------------------
(* The view's handlers (discrete events) *)

\* a bug: the startup effect depending on [isOpen], so that a toggle runs initChat again
toggleChat_Reinit ==
    /\ isOpen' = ~view.isOpen
    /\ chatRef' = CreateChat(History(messages))
    /\ UNCHANGED <<messages, userInput, isLoading, isRecording, recognitionRef,
                   pending, recognizer, env, loaded, callLog, settleLog>>
    /\ Commit

\* toggleChat
toggleChat ==
    /\ isOpen' = ~view.isOpen
    /\ UNCHANGED <<messages, userInput, isLoading, isRecording, chatRef, recognitionRef,
                   pending, recognizer, env, loaded, callLog, settleLog>>
    /\ Commit

\* the textarea's onChange
onChange(t) ==
    /\ userInput' = t
    /\ UNCHANGED <<messages, isLoading, isOpen, isRecording, chatRef, recognitionRef,
                   pending, recognizer, env, loaded, callLog, settleLog>>
    /\ Commit

\* bugs: one of the three conditions of line 174 left out
SendAdmitted_NoTrim(input, loading, ref) == Truthy(input) /\ ~loading /\ ref # None
SendAdmitted_NoLoadingCheck(input, loading, ref) == Truthy(Trim(input)) /\ ref # None
SendAdmitted_NoSessionCheck(input, loading, ref) == Truthy(Trim(input)) /\ ~loading

\* line 174, negated: the conditions under which a send goes on
SendAdmitted(input, loading, ref) == Truthy(Trim(input)) /\ ~loading /\ ref # None

\* a bug: the trimmed input stored
UserMessage_Trimmed(input) == Msg("user", Trim(input))

UserMessage(input) == Msg("user", input)

\* handleSendMessage up to the await
handleSendMessage ==
    IF ~SendAdmitted(view.userInput, view.isLoading, chatRef)
    THEN UNCHANGED vars
    ELSE /\ Len(messages) < MaxMessages
         /\ messages' = AppendMessage(messages, UserMessage(view.userInput))
         /\ userInput' = EmptyText
         /\ isLoading' = TRUE
         /\ pending' = Append(pending, [message |-> view.userInput])
         /\ callLog' = Append(callLog, view.userInput)
         /\ UNCHANGED <<isOpen, isRecording, chatRef, recognitionRef, recognizer, env,
                        loaded, settleLog>>
         /\ Commit

\* a bug: a web entry kept for its uri alone
IsSource_UriOnly(web) == web # None /\ Truthy(web[1].uri)

\* !!(web?.uri && web.title)
IsSource(web) == web # None /\ Truthy(web[1].uri) /\ Truthy(web[1].title)

\* lines 184-193
ModelMessage(response) ==
    LET chunks == response.chunks
        \* groundingChunks?.map(chunk => chunk.web).filter(...)
        webs == IF chunks = None THEN None
                ELSE Some([i \in 1..Len(chunks[1]) |-> chunks[1][i].web])
        kept == IF webs = None THEN None ELSE Some(SelectSeq(webs[1], IsSource))
    IN  [role |-> "model", content |-> response.text,
         \* sources && sources.length > 0 ? sources : undefined
         sources |-> IF kept # None /\ Len(kept[1]) > 0
                     THEN Some([i \in 1..Len(kept[1]) |-> kept[1][i][1]])
                     ELSE None]

\* a bug: the caught error shown instead of the generic text
ErrorMessage_Detailed == Msg("error", <<"Error: 503">>)

ErrorMessage == Msg("error", SendErrorText)

\* a bug: no finally block, the flag stays as it is
LoadingAfterSettle_Kept == isLoading

\* what the finally block sets the loading flag to
LoadingAfterSettle == FALSE

\* the continuation after the awaited call resolves: lines 184-194, 200
SendResolved(response) ==
    /\ Callback
    /\ pending # <<>>
    /\ pending' = Tail(pending)
    /\ messages' = AppendMessage(messages, ModelMessage(response))
    /\ isLoading' = LoadingAfterSettle
    /\ settleLog' = Append(settleLog, [ok |-> TRUE, text |-> response.text,
                                       chunks |-> response.chunks])
    /\ UNCHANGED <<userInput, isOpen, isRecording, chatRef, recognitionRef, recognizer,
                   env, loaded, callLog>>
    /\ Deferred

\* the continuation after the awaited call rejects: lines 195-198, 200
SendRejected ==
    /\ Callback
    /\ pending # <<>>
    /\ pending' = Tail(pending)
    /\ messages' = AppendMessage(messages, ErrorMessage)
    /\ isLoading' = LoadingAfterSettle
    /\ settleLog' = Append(settleLog, [ok |-> FALSE, text |-> <<>>, chunks |-> None])
    /\ UNCHANGED <<userInput, isOpen, isRecording, chatRef, recognitionRef, recognizer,
                   env, loaded, callLog>>
    /\ Deferred

\* the render React schedules for queued updates
Render ==
    /\ view # Snapshot(messages, userInput, isLoading, isRecording, isOpen)
    /\ UNCHANGED <<messages, userInput, isLoading, isOpen, isRecording, chatRef,
                   recognitionRef, pending, recognizer, env, loaded, callLog, settleLog>>
    /\ Commit

-----------------------------------------------------------------------------
(* Voice input *)

\* the recognizer method a click on the microphone button calls (lines 205-210)
ToggleCall ==
    IF ~recognitionRef THEN "none"
    ELSE IF view.isRecording THEN "stop" ELSE "start"

\* handleToggleRecording; start() on a recognizer that is not inactive throws
handleToggleRecording ==
    /\ recognitionRef
    /\ IF ToggleCall = "stop"
       THEN recognizer' = IF recognizer = "inactive" THEN "inactive" ELSE "stopping"
       ELSE recognizer' = IF recognizer = "inactive" THEN "starting" ELSE recognizer
    /\ UNCHANGED <<messages, userInput, isLoading, isOpen, isRecording, chatRef,
                   recognitionRef, pending, env, loaded, callLog, settleLog>>
    /\ Commit

\* recognition.onstart
onstart ==
    /\ Callback
    /\ recognizer = "starting"
    /\ recognizer' = "listening"
    /\ isRecording' = TRUE
    /\ UNCHANGED <<messages, userInput, isLoading, isOpen, chatRef, recognitionRef,
                   pending, env, loaded, callLog, settleLog>>
    /\ Deferred

\* a bug: the separating space put before the transcript unconditionally
WithTranscript_AlwaysSpace(prev, transcript) == prev \o <<" ">> \o transcript

\* setUserInput(prev => (prev ? prev + ' ' : '') + transcript)
WithTranscript(prev, transcript) ==
    (IF Truthy(prev) THEN prev \o <<" ">> ELSE <<>>) \o transcript

\* recognition.onresult
onresult(transcript) ==
    /\ Callback
    /\ recognizer \in {"listening", "stopping"}
    /\ Len(WithTranscript(userInput, transcript)) <= MaxInputLen
    /\ recognizer' = "stopping"
    /\ userInput' = WithTranscript(userInput, transcript)
    /\ UNCHANGED <<messages, isLoading, isOpen, isRecording, chatRef, recognitionRef,
                   pending, env, loaded, callLog, settleLog>>
    /\ Deferred

MicErrorMessage == Msg("error", MicErrorText)

\* a bug: every error code reported as a denied permission
IsPermissionDenial_AnyCode(code) == TRUE

\* event.error === 'not-allowed'
IsPermissionDenial(code) == code = "not-allowed"

\* recognition.onerror
onerror(code) ==
    /\ Callback
    /\ recognizer \in {"starting", "listening"}
    /\ IsPermissionDenial(code) => Len(messages) < MaxMessages
    /\ recognizer' = "stopping"
    /\ messages' = IF IsPermissionDenial(code) THEN AppendMessage(messages, MicErrorMessage)
                   ELSE messages
    /\ isRecording' = FALSE
    /\ UNCHANGED <<userInput, isLoading, isOpen, chatRef, recognitionRef, pending, env,
                   loaded, callLog, settleLog>>
    /\ Deferred

\* recognition.onend
onend ==
    /\ Callback
    /\ recognizer \in {"listening", "stopping"}
    /\ recognizer' = "inactive"
    /\ isRecording' = FALSE
    /\ UNCHANGED <<messages, userInput, isLoading, isOpen, chatRef, recognitionRef,
                   pending, env, loaded, callLog, settleLog>>
    /\ Deferred

-----------------------------------------------------------------------------

Settle == (\E response \in Responses(env) : SendResolved(response)) \/ SendRejected

Next ==
    \/ toggleChat
    \/ \E t \in TypedTexts : onChange(t)
    \/ handleSendMessage
    \/ \E response \in Responses(env) : SendResolved(response)
    \/ SendRejected
    \/ Render
    \/ handleToggleRecording
    \/ onstart
    \/ \E transcript \in Transcripts : onresult(transcript)
    \/ \E code \in SpeechErrorCodes : onerror(code)
    \/ onend
    \/ Reload

Spec == Init /\ [][Next]_vars

\* the backend settles every call and React runs every render it has scheduled
FairSpec == Spec /\ SF_vars(Settle) /\ WF_vars(Render)

-----------------------------------------------------------------------------
(* What the claims speak of *)

\* the messages appended since this page was constructed
Appended == SubSeq(messages, Len(loaded) + 1, Len(messages))

IsPrefix(a, b) == Len(a) <= Len(b) /\ SubSeq(b, 1, Len(a)) = a

\* the handler invoked in this state would leave every variable as it is
SendIsNoOp == ~ENABLED (handleSendMessage /\ vars' # vars)

\* the transcript entries N sends leave, from what was sent and how the backend
\* settled it: the user message of each send, then its reply if it has one
ExpectedUser(i) == [role |-> "user", content |-> callLog[i], sources |-> None]

ExpectedRole(i) == IF settleLog[i].ok THEN "model" ELSE "error"

ExpectedContent(i) == IF settleLog[i].ok THEN settleLog[i].text ELSE SendErrorText

IsAddedError(m) == m.role = "error" /\ m.content \in {InitErrorText, MicErrorText}

IsTurnMessage(m) == ~IsAddedError(m)

\* position k of `turns` is the user message of send (k+1)/2 or the reply to send k/2
TurnsInCallOrder(turns) ==
    /\ Len(turns) = Len(callLog) + Len(settleLog)
    /\ Len(callLog) - Len(settleLog) \in {0, 1}
    /\ \A i \in 1..Len(callLog) : turns[2 * i - 1] = ExpectedUser(i)
    /\ \A i \in 1..Len(settleLog) :
          /\ turns[2 * i].role = ExpectedRole(i)
          /\ turns[2 * i].content = ExpectedContent(i)

\* C1 as stated: once the sends issued on this page (at least one) have completed, the messages
\* appended since startup are exactly the N user messages interleaved with the
\* N replies, in call order.
C1_AppendedAreTheTurns ==
    (Len(settleLog) >= 1 /\ pending = <<>>) => TurnsInCallOrder(Appended)

\* C1, amended: leaving out the session-initialization error and the
\* microphone-permission errors, the messages appended since startup are the user
\* message of each send followed by the reply of that send, in call order (the
\* last send's reply is missing exactly while that send is in flight).
C1_TurnsInCallOrder == TurnsInCallOrder(SelectSeq(Appended, IsTurnMessage))

\* two sends have completed on this page, the first answered and the second failed
C1_Witness ==
    /\ Len(settleLog) = 2
    /\ pending = <<>>
    /\ settleLog[1].ok /\ ~settleLog[2].ok

\* C2: at most one sendMessage call is outstanding, and while one is outstanding
\* handleSendMessage changes nothing: no message, no change of the pending input,
\* no backend call.
C2_SingleFlight ==
    /\ Len(pending) <= 1
    /\ (pending # <<>> \/ isLoading) => SendIsNoOp

\* a send is in flight and the handler would see a non-blank input and a session
C2_Witness ==
    /\ pending # <<>>
    /\ Truthy(Trim(view.userInput))
    /\ chatRef # None
    /\ Len(messages) < MaxMessages

\* C6: sending an input that is empty or whitespace-only after trimming changes
\* nothing: not the messages, the loading flag or the pending input, and no call
\* is issued.
C6_BlankSendIsNoOp ==
    (Trim(view.userInput) = <<>> \/ Trim(userInput) = <<>>) => SendIsNoOp

\* a whitespace-only input with nothing else in the way of a send
C6_Witness ==
    /\ view.userInput = <<" ">>
    /\ ~view.isLoading
    /\ chatRef # None
    /\ Len(messages) < MaxMessages

\* C8: the in-memory Message Store is never empty.
C8_StoreNeverEmpty == Len(messages) >= 1 /\ Len(view.messages) >= 1

\* the storage held '[]' when the page was constructed, and a send has completed
C8_Witness ==
    /\ ~env.writable
    /\ sessionStorage.chatWidgetMessages = ArrayJson(<<>>)
    /\ Len(settleLog) >= 1

\* C3: when session construction fails, exactly one initialization error is
\* appended (the first message appended on the page), the session handle stays
\* unset, and handleSendMessage changes nothing: no user message, no backend call,
\* the loading flag stays false.
C3_InitFailure ==
    ~env.apiKey =>
        /\ chatRef = None
        /\ Appended # <<>>
        /\ Appended[1] = [role |-> "error", content |-> InitErrorText, sources |-> None]
        /\ Cardinality({k \in DOMAIN Appended : Appended[k].content = InitErrorText}) = 1
        /\ \A k \in DOMAIN Appended : Appended[k].role # "user"
        /\ callLog = <<>> /\ pending = <<>>
        /\ ~isLoading /\ ~view.isLoading
        /\ SendIsNoOp

\* construction failed, and the handler would see a non-blank input
C3_Witness ==
    /\ ~env.apiKey
    /\ Truthy(Trim(view.userInput))
    /\ Len(messages) < MaxMessages

Rejected == {i \in DOMAIN settleLog : ~settleLog[i].ok}

\* C4: a send whose backend call rejects leaves, after its user message, exactly
\* one error message with the generic text and no model message; no further call
\* is issued for it, and the loading flag is false once it is settled.
C4_RejectedSend ==
    LET turns == SelectSeq(Appended, IsTurnMessage)
    IN  /\ Len(turns) = Len(callLog) + Len(settleLog)
        /\ \A i \in Rejected :
              /\ turns[2 * i - 1].role = "user"
              /\ turns[2 * i] = [role |-> "error", content |-> SendErrorText,
                                 sources |-> None]
        /\ Cardinality({k \in DOMAIN Appended : Appended[k].content = SendErrorText})
              = Cardinality(Rejected)
        /\ Len(callLog) = Len(settleLog) + Len(pending)
        /\ pending = <<>> => ~isLoading

\* the only send of the page was rejected
C4_Witness ==
    /\ Len(settleLog) = 1
    /\ ~settleLog[1].ok
    /\ pending = <<>>
    /\ Len(callLog) = 1

\* the handler invoked in this state would issue a backend call
SendGoesOn == ENABLED (handleSendMessage /\ Len(pending') = Len(pending) + 1)

\* C5: a send that has set the loading flag is followed by a state in which the
\* flag is cleared (in the state and in the committed render), whether the call
\* resolves or rejects; and with the flag cleared a send of a non-blank input is
\* admitted.
C5_LoadingClears ==
    /\ isLoading ~> (~isLoading /\ ~view.isLoading)
    /\ [](   (/\ ~view.isLoading /\ chatRef # None /\ Truthy(Trim(view.userInput))
              /\ Len(messages) < MaxMessages)
          => SendGoesOn)

\* after a resolved and a rejected send the flag is cleared and a new input is typed
C5_Witness ==
    /\ Len(settleLog) = 2
    /\ settleLog[1].ok # settleLog[2].ok
    /\ ~isLoading /\ ~view.isLoading
    /\ Truthy(Trim(view.userInput))

\* a stored item that holds a message sequence
IsMessageSequence(item) ==
    /\ item.kind = "array"
    /\ Len(item.arr) > 0
    /\ \A i \in 1..Len(item.arr) : ParseMessage(item.arr[i]).role \in Roles

\* C7 (where the storage cannot be written, so that it still holds what the
\* initializer read): a persisted value that is absent, '[]', malformed or
\* otherwise no message sequence loads as the single welcome message.
C7_InvalidLoadsDefault ==
    (~env.writable /\ ~IsMessageSequence(sessionStorage.chatWidgetMessages))
        => loaded = <<initialMessage>>

KeptIndices == {i \in 1..Len(loaded) : loaded[i].role \in {"user", "model"}}

Rank(i) == Cardinality({j \in KeptIndices : j <= i})

\* C9: the history handed to session creation holds, in the order of the loaded
\* Message Store, exactly its user and model messages, each as (role, text =
\* content), and no error turn.
C9_HistoryIsFilteredStore ==
    chatRef # None =>
        LET history == chatRef[1].history
        IN  /\ Len(history) = Cardinality(KeptIndices)
            /\ \A i \in KeptIndices :
                  history[Rank(i)] = [role |-> loaded[i].role,
                                      parts |-> <<[text |-> loaded[i].content]>>]
            /\ \A k \in DOMAIN history : history[k].role # "error"

\* a session created from a store that holds a model turn and then an error turn
C9_Witness ==
    /\ chatRef # None
    /\ \E i, j \in DOMAIN loaded :
          /\ i < j
          /\ loaded[i].role = "model" /\ loaded[j].role = "error"
    /\ Len(chatRef[1].history) = 1

\* C10: every step changes the Message Store at most by appending one message at
\* its end; a page reload (which always leaves both logs empty) starts from the
\* loaded sequence, to which construction appends at most one message.
C10_AppendOnly ==
    [][IF callLog' = <<>> /\ settleLog' = <<>> /\ Reload
       THEN IsPrefix(loaded', messages') /\ Len(messages') <= Len(loaded') + 1
       ELSE IsPrefix(messages, messages') /\ Len(messages') <= Len(messages) + 1]_vars

\* a user message, a reply and a microphone error have been appended on this page
C10_Witness ==
    /\ Len(settleLog) >= 1
    /\ \E k \in DOMAIN Appended : Appended[k].content = MicErrorText
    /\ Len(Appended) = 3

\* C11: where writes to the storage succeed, once the render that follows a change
\* of the Message Store or of the visibility flag is committed (and its effects have
\* run), the item under 'chatWidgetMessages' decodes to the current message
\* sequence and the item under 'chatWidgetIsOpen' to the current flag: what a page
\* reload would load is the current sequence and flag.
C11_PersistedIsCurrent ==
    (env.writable /\ view.messages = messages /\ view.isOpen = isOpen) =>
        /\ sessionStorage.chatWidgetMessages.kind = "array"
        /\ ParseArray(sessionStorage.chatWidgetMessages) = messages
        /\ LoadMessages(sessionStorage.chatWidgetMessages) = messages
        /\ sessionStorage.chatWidgetIsOpen.kind = "bool"
        /\ LoadIsOpen(sessionStorage.chatWidgetIsOpen) = isOpen

\* the widget was opened and a reply with sources was appended and committed
C11_Witness ==
    /\ env.writable
    /\ isOpen
    /\ view.messages = messages
    /\ \E k \in DOMAIN Appended : Appended[k].sources # None

\* a reply to a send: a model message other than the welcome text, or the generic error
IsReply(m) ==
    \/ m.role = "model" /\ m.content # WelcomeText
    \/ m.role = "error" /\ m.content = SendErrorText

\* C12: a page reload while a send is in flight leaves a page whose loading flag
\* is false (in the state and in the render), with no call outstanding, nothing
\* appended to the loaded messages and only the two known keys in the storage; a
\* send of a non-blank input is admitted on it; and on every page the replies
\* appended are the settlements of calls issued on that page.
C12_ReloadDiscardsInFlight ==
    /\ [][(pending # <<>> /\ callLog' = <<>> /\ Reload) =>
            /\ ~isLoading' /\ ~view'.isLoading
            /\ pending' = <<>>
            /\ messages' = loaded'
            /\ DOMAIN sessionStorage' = {"chatWidgetIsOpen", "chatWidgetMessages"}
            /\ SendAdmitted(<<"a">>, view'.isLoading, chatRef')]_vars
    /\ [](/\ Len(settleLog) <= Len(callLog)
          /\ Len(SelectSeq(Appended, IsReply)) = Len(settleLog))

\* a page loaded from a store that ends with an unanswered user message has had a
\* send of its own answered
C12_Witness ==
    /\ loaded[Len(loaded)].role = "user"
    /\ Len(settleLog) = 1
    /\ settleLog[1].ok

\* C13: the session handle of a page is the outcome of the one session creation
\* at its startup (from the loaded messages; unset if creation failed), and no
\* step other than a page reload (a send, a settlement, a render, a speech event,
\* a visibility toggle, typing) changes the handle.
C13_OneSessionPerPage ==
    /\ [](chatRef = IF env.apiKey THEN CreateChat(History(loaded)) ELSE None)
    /\ [][chatRef' = chatRef \/ Reload]_vars

\* with a session: a send was settled, the widget is open and a dictated
\* transcript was appended to a typed input
C13_Witness ==
    /\ chatRef # None
    /\ Len(settleLog) >= 1
    /\ isOpen
    /\ view.userInput = <<"a", " ", "a">>

\* the grounding entries the backend returned with the reply to send i
Entries(i) == IF settleLog[i].chunks = None THEN <<>> ELSE settleLog[i].chunks[1]

\* entry k of send i has both a non-empty uri and a non-empty title
Qualifies(i, k) ==
    /\ Entries(i)[k].web # None
    /\ Entries(i)[k].web[1].uri # <<>>
    /\ Entries(i)[k].web[1].title # <<>>

Qualifying(i) == {k \in 1..Len(Entries(i)) : Qualifies(i, k)}

\* C14: the model message appended for a resolved send carries `sources` iff the
\* backend returned at least one entry with a non-empty uri and a non-empty title;
\* `sources` is then exactly those entries, in the backend's order, and it is
\* never present as an empty sequence.
C14_SourcesAreQualifyingEntries ==
    LET turns == SelectSeq(Appended, IsTurnMessage)
    IN  \A i \in DOMAIN settleLog :
           settleLog[i].ok =>
              LET m == turns[2 * i]
              IN  /\ m.role = "model"
                  /\ (m.sources # None) <=> (Qualifying(i) # {})
                  /\ m.sources # Some(<<>>)
                  /\ m.sources # None =>
                        /\ Len(m.sources[1]) = Cardinality(Qualifying(i))
                        /\ \A k \in Qualifying(i) :
                              m.sources[1][Cardinality({j \in Qualifying(i) : j <= k})]
                                 = Entries(i)[k].web[1]

\* one reply came with three entries of which two qualify, another with entries
\* of which none qualifies
C14_Witness ==
    \E i, j \in DOMAIN settleLog :
        /\ settleLog[i].ok /\ settleLog[j].ok
        /\ Len(Entries(i)) = 3 /\ Cardinality(Qualifying(i)) = 2
        /\ Len(Entries(j)) = 2 /\ Qualifying(j) = {}

\* C15: a speech error event with the code 'not-allowed' appends exactly one
\* error message with the microphone-permission text and changes no other
\* message; one with any other code leaves the Message Store as it is; after
\* either, the recording state is false.
C15_SpeechError ==
    [][\A code \in SpeechErrorCodes :
          onerror(code) =>
             /\ IF code = "not-allowed"
                THEN messages' = messages \o <<[role |-> "error", content |-> MicErrorText,
                                                sources |-> None]>>
                ELSE messages' = messages
             /\ isRecording' = FALSE]_vars

\* a permission denial has just arrived while the view showed a recording
C15_Witness ==
    /\ recognizer = "stopping"
    /\ view.isRecording /\ ~isRecording
    /\ Len(messages) = Len(view.messages) + 1
    /\ messages[Len(messages)].content = MicErrorText

\* C16: a speech result changes the pending input to the old input, then one
\* space if the old input was not empty, then the transcript, and changes nothing
\* else of the conversation: the Message Store, the loading flag, the session
\* handle and the outstanding and issued calls stay as they are, whether or not a
\* send is in flight.
C16_ResultOnlyChangesInput ==
    [][\A transcript \in Transcripts :
          onresult(transcript) =>
             /\ userInput' = IF userInput = <<>> THEN transcript
                              ELSE userInput \o <<" ">> \o transcript
             /\ UNCHANGED <<messages, isLoading, chatRef, pending, callLog, settleLog>>]_vars

\* with a send in flight, a result was appended to an input typed after the send
C16_Witness ==
    /\ pending # <<>>
    /\ view.userInput = <<"a">>
    /\ userInput = <<"a", " ", "a">>

\* C17: in every state a click on the microphone button calls start() only if the
\* recognizer is idle (no recognition started and not yet ended), and calls
\* stop() if the view shows a recording.
C17_StartOnlyWhenIdle ==
    /\ ToggleCall = "start" => recognizer = "inactive"
    /\ (recognitionRef /\ view.isRecording) => ToggleCall = "stop"

\* the messages of the loaded store after position i that are turns of a send
LaterTurns(i) == {j \in (i + 1)..Len(loaded) : IsTurnMessage(loaded[j])}

NextTurn(i) == CHOOSE j \in LaterTurns(i) : \A j2 \in LaterTurns(i) : j <= j2

\* the user message at position i of the loaded store was answered
Answered(i) == LaterTurns(i) # {} /\ loaded[NextTurn(i)].role = "model"

====
